---- MODULE Spec2Model ----
(***************************************************************************)
(* Round-robin scheduling lab helper (rr.py): the driver main(), the input *)
(* reader init_processes(), the TAILQ-like process_list_t, and the         *)
(* scheduling engine that the driver leaves open between "Your code here"  *)
(* and "End of Your code here", which is modelled from section 4.2 and 4.3 *)
(* of the specification.                                                   *)
(***************************************************************************)
EXTENDS Integers, Sequences, FiniteSets, TLC

\* ------------------------------------------------------------------ bounds
MaxProcs == 2          \* lines of a well-formed input file
MaxArrival == 2
MaxBurst == 2
MaxQuantum == 2
\* A dispatch of length zero (quantum 0, burst 0) makes no progress and can
\* repeat for ever: the trace may hold this many entries of length zero.
\* Dispatches of positive length are never held back.
MaxZeroRuns == MaxProcs + 1
MaxOps == 4            \* pushes in one run of the queue exercise
MaxEvents == 10        \* tag and data events fed to the parser in any order

\* -------------------------------------------------------- program constants
EXIT_SUCCESS == 0
EINVAL == 22
RequiredArgc == 3

VARIABLES
    pc,                  \* position of main()
    argc,                \* len(sys.argv)
    argv2,               \* argv[2]: [isint, val]
    file,                \* the lines of the file argv[1] names, after the header
    quantum_length,
    data,                \* List[process_t], in input order
    size,
    list,                \* process_list_t: sequence of indices into data
    t,                   \* the engine's clock
    admitted,            \* indices of data already put on the ready queue
    running,             \* index of the running process, 0 when none
    remaining_time,
    first_dispatch_time, \* per process: {} when unset, {time} when set
    completion_time,     \* per process: {} when unset, {time} when set
    trace,               \* Execution Trace: <<[pid, start_time, end_time]>>
    total_waiting_time,
    total_response_time,
    avg_waiting_time,    \* in hundredths, as printed with :.2f; {} when not printed
    avg_response_time,
    exit_code,           \* {} while running or after a raise, {code} on return
    pushed,              \* queue exercise: everything pushed, in order
    popped,              \* queue exercise: everything taken, in order
    front,               \* queue exercise: what first() returned, 0 for None
    q_error,             \* queue exercise: the exception raised, "none" if none
    gen_argv,            \* generate.py: [num, arrival_range, burst_range, output]
    arrival_bounds,      \* generate.py: <<lower, upper>>
    burst_bounds,
    arrival_times,
    burst_times,
    content,             \* generate.py: the lines written after the header
    chart_parser,        \* solver.py: the GanttChartParser object
    html,                \* solver.py: the events of raw_html still to be fed
    chart,               \* the chart raw_html shows: [pids, times, wrap]
    fed                  \* events fed so far

vars == <<pc, argc, argv2, file, quantum_length, data, size, list, t, admitted,
          running, remaining_time, first_dispatch_time, completion_time, trace,
          total_waiting_time, total_response_time, avg_waiting_time,
          avg_response_time, exit_code, pushed, popped, front, q_error,
          gen_argv, arrival_bounds, burst_bounds, arrival_times, burst_times,
          content, chart_parser, html, chart, fed>>

engine == <<list, t, admitted, running, remaining_time, first_dispatch_time,
            completion_time, trace>>
report == <<total_waiting_time, total_response_time, avg_waiting_time,
            avg_response_time>>
inputs == <<argc, argv2, file>>
exercise == <<pushed, popped, front, q_error>>
generator == <<gen_argv, arrival_bounds, burst_bounds, arrival_times,
               burst_times, content>>
scraper == <<chart_parser, html, chart, fed>>
suite == <<exercise, generator, scraper>>

\* ------------------------------------------------------------------ inputs
\* One line of the input file after the header: <<pid, arrival, burst>>
\* with one negative arrival time and one non-positive burst time
FileLines ==
    (1..MaxProcs) \X ((0 - 1)..MaxArrival) \X (0..MaxBurst)

ValidLine(l) == l[2] >= 0 /\ l[3] >= 1

DistinctPids(f) ==
    \A i, j \in DOMAIN f : i # j => f[i][1] # f[j][1]

ValidLines == {l \in FileLines : ValidLine(l)}

\* Well-formed files of up to MaxProcs lines, and files of one or two
\* arbitrary lines (two lines are what a duplicate pid takes).
InputFiles ==
    UNION {{f \in [1..n -> ValidLines] : DistinctPids(f)} : n \in 0..MaxProcs}
    \cup UNION {[1..n -> FileLines] : n \in 1..2}

Argv2Values ==
    {[isint |-> TRUE, val |-> q] : q \in (0 - 1)..MaxQuantum}
    \cup {[isint |-> FALSE, val |-> 0]}

\* ------------------------------------------------------------------ helpers
IsSet(x) == x # {}
Val(x) == CHOOSE v \in x : TRUE

Min(a, b) == IF a <= b THEN a ELSE b

\* sum(f[i] for i in S)
RECURSIVE SumOver(_, _)
SumOver(f, S) ==
    IF S = {} THEN 0
    ELSE LET i == CHOOSE x \in S : TRUE IN f[i] + SumOver(f, S \ {i})

InQueue(q, i) == \E k \in 1..Len(q) : q[k] = i

\* --------------------------------------------------------- process_list_t
\* Fault variant of empty(): a queue of one element taken for empty.
EmptyOffByOne(q) == Len(q) <= 1

empty(q) == Len(q) = 0

\* first(): the head, 0 standing for None
first(q) == IF empty(q) THEN 0 ELSE q[1]

last(q) == IF empty(q) THEN 0 ELSE q[Len(q)]

\* deque.remove(element): drops the first entry that compares equal to the
\* element; process_t is a dataclass, so equality is equality of the fields.
\* An element that is not there raises ValueError; the engine only removes
\* the element first() has just returned, so the queue is returned as is.
RemoveIndex(q, e) ==
    IF \E k \in 1..Len(q) : data[q[k]] = data[e]
    THEN CHOOSE k \in 1..Len(q) :
            /\ data[q[k]] = data[e]
            /\ \A m \in 1..(k - 1) : data[q[m]] # data[e]
    ELSE 0

\* Fault variants of remove(): dropping the tail whatever the element is,
\* and dropping nothing.
RemovePop(q, e) == IF Len(q) = 0 THEN q ELSE SubSeq(q, 1, Len(q) - 1)

RemoveNothing(q, e) == q

remove(q, e) ==
    LET k == RemoveIndex(q, e) IN
    IF k = 0 THEN q
    ELSE SubSeq(q, 1, k - 1) \o SubSeq(q, k + 1, Len(q))

insert_head(q, e) == <<e>> \o q

\* Fault variant of insert_tail(): appendleft in place of append.
InsertTailAtHead(q, e) == <<e>> \o q

\* Fault variant of insert_tail(): the queue kept ordered by pid.
InsertByPid(q, e) ==
    LET k == Cardinality({j \in 1..Len(q) : data[q[j]].pid <= data[e].pid})
    IN SubSeq(q, 1, k) \o <<e>> \o SubSeq(q, k + 1, Len(q))

insert_tail(q, e) == Append(q, e)

\* ------------------------------------------- solver.py: GanttChartParser
OUTERMOST_DIV_CLASSNAME == "sc-a3b21388-0 evwFKR"

\* __init__()
GanttChartParser ==
    [in_gantt_chart |-> FALSE,
     in_combined_row |-> FALSE,
     in_pids_row |-> FALSE,
     in_times_row |-> FALSE,
     in_pid_cell |-> FALSE,
     in_time_cell |-> FALSE,
     next_row_type |-> "pids",
     pids |-> <<>>,
     times |-> <<>>]

NoChart == [pids |-> <<>>, times |-> <<>>, wrap |-> 0]

\* solver.py is not running
NoParser ==
    /\ chart_parser = GanttChartParser
    /\ html = <<>>
    /\ chart = NoChart
    /\ fed = 0

\* -------------------------------------------------------------------- main
\* the queue exercise and generate.py are not running
NoExercise ==
    /\ pushed = <<>>
    /\ popped = <<>>
    /\ front = 0
    /\ q_error = "none"

NoGenerator ==
    /\ gen_argv = [num |-> 0, arrival_range |-> <<>>, burst_range |-> <<>>,
                   output |-> FALSE]
    /\ arrival_bounds = <<>>
    /\ burst_bounds = <<>>
    /\ arrival_times = <<>>
    /\ burst_times = <<>>
    /\ content = <<>>

Init ==
    /\ pc = "main"
    /\ argc \in {RequiredArgc - 1, RequiredArgc}
    /\ argv2 \in Argv2Values
    /\ file \in InputFiles
    /\ quantum_length = 0
    /\ data = <<>>
    /\ size = 0
    /\ list = <<>>
    /\ t = 0
    /\ admitted = {}
    /\ running = 0
    /\ remaining_time = <<>>
    /\ first_dispatch_time = <<>>
    /\ completion_time = <<>>
    /\ trace = <<>>
    /\ total_waiting_time = 0
    /\ total_response_time = 0
    /\ avg_waiting_time = {}
    /\ avg_response_time = {}
    /\ exit_code = {}
    /\ NoExercise
    /\ NoParser
    /\ NoGenerator

\* rr.py:170: the quantum values main() turns away
QuantumRejected(q) == q < 0

\* rr.py:165-173: argument count, int(argv[2]), sign of the quantum
MainArgs ==
    /\ pc = "main"
    /\ IF argc # RequiredArgc \/ ~argv2.isint \/ QuantumRejected(argv2.val)
       THEN /\ pc' = "done"
            /\ exit_code' = {EINVAL}
            /\ UNCHANGED quantum_length
       ELSE /\ pc' = "init_processes"
            /\ quantum_length' = argv2.val
            /\ UNCHANGED exit_code
    /\ UNCHANGED <<suite, inputs, data, size, engine, report>>

\* init_processes(): one process_t per line, in file order; the three numbers
\* of a line are pid, arrival_time, burst_time
init_processes(f) ==
    [i \in DOMAIN f |->
        [pid |-> f[i][1], arrival_time |-> f[i][2], burst_time |-> f[i][3]]]

\* rr.py:175-182
InitProcesses ==
    /\ pc = "init_processes"
    /\ data' = init_processes(file)
    /\ size' = Len(init_processes(file))
    /\ list' = <<>>
    /\ total_waiting_time' = 0
    /\ total_response_time' = 0
    /\ pc' = "setup"
    /\ UNCHANGED <<suite, inputs, quantum_length, t, admitted, running, remaining_time,
                   first_dispatch_time, completion_time, trace,
                   avg_waiting_time, avg_response_time, exit_code>>

\* ------------------------------------------------- engine (section 4.2)
Procs == 1..size

NotAdmitted == Procs \ admitted

MinArrivalOf(S) ==
    CHOOSE a \in {data[i].arrival_time : i \in S} :
        \A j \in S : a <= data[j].arrival_time

\* The clock starts at the minimum arrival time, or 0 for an empty set.
EngineSetup ==
    /\ pc = "setup"
    /\ t' = IF size = 0 THEN 0 ELSE MinArrivalOf(Procs)
    /\ remaining_time' = [i \in Procs |-> data[i].burst_time]
    /\ first_dispatch_time' = [i \in Procs |-> {}]
    /\ completion_time' = [i \in Procs |-> {}]
    /\ admitted' = {}
    /\ running' = 0
    /\ trace' = <<>>
    /\ pc' = "admission"
    /\ UNCHANGED <<suite, inputs, quantum_length, data, size, list, report, exit_code>>

\* Step 1: ascending arrival_time, ties broken by input order.
Earlier(i, j) ==
    \/ data[i].arrival_time < data[j].arrival_time
    \/ data[i].arrival_time = data[j].arrival_time /\ i < j

RECURSIVE AdmitOrder(_)
AdmitOrder(S) ==
    IF S = {} THEN <<>>
    ELSE LET i == CHOOSE x \in S : \A y \in S \ {x} : Earlier(x, y)
         IN <<i>> \o AdmitOrder(S \ {i})

RECURSIVE push_back_many(_, _)
push_back_many(q, ps) ==
    IF ps = <<>> THEN q
    ELSE push_back_many(insert_tail(q, Head(ps)), Tail(ps))

Arrived(tt) == {i \in NotAdmitted : data[i].arrival_time <= tt}

Admit(q, tt) == push_back_many(q, AdmitOrder(Arrived(tt)))

Admission ==
    /\ pc = "admission"
    /\ list' = Admit(list, t)
    /\ admitted' = admitted \cup Arrived(t)
    /\ pc' = "idle"
    /\ UNCHANGED <<suite, inputs, quantum_length, data, size, t, running,
                   remaining_time, first_dispatch_time, completion_time, trace,
                   report, exit_code>>

\* Step 2, nothing to run but arrivals outstanding: one jump of the clock.
IdleJump ==
    /\ pc = "idle"
    /\ empty(list) /\ running = 0
    /\ NotAdmitted # {}
    /\ t' = MinArrivalOf(NotAdmitted)
    /\ pc' = "admission"
    /\ UNCHANGED <<suite, inputs, quantum_length, data, size, list, admitted, running,
                   remaining_time, first_dispatch_time, completion_time, trace,
                   report, exit_code>>

\* Step 2, no processes remain at all.
Terminal ==
    /\ pc = "idle"
    /\ empty(list) /\ running = 0
    /\ NotAdmitted = {}
    /\ pc' = "terminal"
    /\ UNCHANGED <<suite, inputs, quantum_length, data, size, engine, report, exit_code>>

\* Step 3: pop the front of the ready queue as running.
Dispatch ==
    /\ pc = "idle"
    /\ ~empty(list)
    /\ LET p == first(list) IN
          /\ list' = remove(list, p)
          /\ running' = p
          /\ first_dispatch_time' =
                IF IsSet(first_dispatch_time[p]) THEN first_dispatch_time
                ELSE [first_dispatch_time EXCEPT ![p] = {t}]
    /\ pc' = "run"
    /\ UNCHANGED <<suite, inputs, quantum_length, data, size, t, admitted,
                   remaining_time, completion_time, trace, report, exit_code>>

\* Fault variants of the run length: the whole quantum whatever is left,
\* and all that is left whatever the quantum.
RunLengthQuantum(p) == quantum_length

RunLengthWhole(p) == remaining_time[p]

\* Step 4
RunLength(p) == Min(quantum_length, remaining_time[p])

ZeroRuns ==
    Cardinality({k \in 1..Len(trace) : trace[k].start_time = trace[k].end_time})

Run ==
    /\ pc = "run"
    /\ RunLength(running) > 0 \/ ZeroRuns < MaxZeroRuns
    /\ LET run_length == RunLength(running) IN
          /\ t' = t + run_length
          /\ remaining_time' =
                [remaining_time EXCEPT ![running] = @ - run_length]
          /\ trace' = Append(trace, [pid |-> data[running].pid,
                                     start_time |-> t,
                                     end_time |-> t + run_length])
    /\ pc' = "completion"
    /\ UNCHANGED <<suite, inputs, quantum_length, data, size, list, admitted, running,
                   first_dispatch_time, completion_time, report, exit_code>>

\* Step 5
Complete ==
    /\ pc = "completion"
    /\ remaining_time[running] = 0
    /\ completion_time' = [completion_time EXCEPT ![running] = {t}]
    /\ running' = 0
    /\ pc' = "admission"
    /\ UNCHANGED <<suite, inputs, quantum_length, data, size, list, t, admitted,
                   remaining_time, first_dispatch_time, trace, report, exit_code>>

\* Step 6: Admission for the instant t, then the preempted process at the back.
Requeue ==
    /\ pc = "completion"
    /\ remaining_time[running] # 0
    /\ list' = insert_tail(Admit(list, t), running)
    /\ admitted' = admitted \cup Arrived(t)
    /\ running' = 0
    /\ pc' = "admission"
    /\ UNCHANGED <<suite, inputs, quantum_length, data, size, t, remaining_time,
                   first_dispatch_time, completion_time, trace, report,
                   exit_code>>

\* ------------------------------------------- metrics (section 4.3), report
\* Fault variant of response_time: the operands exchanged.
ResponseTimeReversed(i) == data[i].arrival_time - Val(first_dispatch_time[i])

\* solver.py:255: first execution time minus arrival time
response_time(i) == Val(first_dispatch_time[i]) - data[i].arrival_time

waiting_time(i) ==
    Val(completion_time[i]) - data[i].arrival_time - data[i].burst_time

\* solver.py:194-200: the time paired with the first occurrence of pid in
\* zip(pids, times); later occurrences are skipped.  0 stands for a pid that
\* does not occur (the field is left unset).
FirstExecOverwritten(pids, times, pid) ==
    LET n == Min(Len(pids), Len(times))
        ks == {k \in 1..n : pids[k] = pid}
    IN IF ks = {} THEN 0
       ELSE times[CHOOSE k \in ks : \A m \in ks : m <= k]

first_exec_time(pids, times, pid) ==
    LET n == Min(Len(pids), Len(times))
        ks == {k \in 1..n : pids[k] = pid}
    IN IF ks = {} THEN 0
       ELSE times[CHOOSE k \in ks : \A m \in ks : k <= m]

MetricsReady ==
    \A i \in Procs : IsSet(first_dispatch_time[i]) /\ IsSet(completion_time[i])

\* The aggregator reads the records once the engine is in Terminal; a record
\* with an unset time makes the subtraction raise.
Metrics ==
    /\ pc = "terminal"
    /\ IF MetricsReady
       THEN /\ total_waiting_time' =
                  SumOver([i \in Procs |-> waiting_time(i)], Procs)
            /\ total_response_time' =
                  SumOver([i \in Procs |-> response_time(i)], Procs)
            /\ pc' = "report"
       ELSE /\ pc' = "raised"
            /\ UNCHANGED <<total_waiting_time, total_response_time>>
    /\ UNCHANGED <<suite, inputs, quantum_length, data, size, engine,
                   avg_waiting_time, avg_response_time, exit_code>>

\* f"{float(total / n):.2f}": the quotient to the nearest hundredth, kept as
\* a number of hundredths
Hundredths(total, n) == (200 * total + n) \div (2 * n)

\* rr.py:190-194: total / size raises ZeroDivisionError when size is 0
Report ==
    /\ pc = "report"
    /\ IF size = 0
       THEN /\ pc' = "raised"
            /\ UNCHANGED <<avg_waiting_time, avg_response_time, exit_code>>
       ELSE /\ avg_waiting_time' = {Hundredths(total_waiting_time, size)}
            /\ avg_response_time' = {Hundredths(total_response_time, size)}
            /\ exit_code' = {EXIT_SUCCESS}
            /\ pc' = "done"
    /\ UNCHANGED <<suite, inputs, quantum_length, data, size, engine,
                   total_waiting_time, total_response_time>>

Next ==
    \/ MainArgs
    \/ InitProcesses
    \/ EngineSetup
    \/ Admission
    \/ IdleJump
    \/ Terminal
    \/ Dispatch
    \/ Run
    \/ Complete
    \/ Requeue
    \/ Metrics
    \/ Report

Spec == Init /\ [][Next]_vars

\* main() is one sequential thread: it takes its next step whenever it has one.
FairSpec == Spec /\ WF_vars(Next)

\* ------------------------------------------ exercising process_list_t
\* The pool the exercise pushes from: MaxProcs records that differ at most
\* in their pid, two equal records included.
QueueFiles ==
    [1..MaxProcs -> {l \in ValidLines : l[2] = 0 /\ l[3] = 1}]

QPush ==
    /\ pc = "queue"
    /\ Len(pushed) < MaxOps
    /\ \E e \in Procs :
          /\ list' = insert_tail(list, e)
          /\ pushed' = Append(pushed, e)
    /\ UNCHANGED <<pc, inputs, quantum_length, data, size, t, admitted,
                   running, remaining_time, first_dispatch_time,
                   completion_time, trace, report, exit_code, popped, front,
                   q_error, generator, scraper>>

QPushMany ==
    /\ pc = "queue"
    /\ Len(pushed) + 2 <= MaxOps
    /\ \E ps \in [1..2 -> Procs] :
          /\ list' = push_back_many(list, ps)
          /\ pushed' = pushed \o ps
    /\ UNCHANGED <<pc, inputs, quantum_length, data, size, t, admitted,
                   running, remaining_time, first_dispatch_time,
                   completion_time, trace, report, exit_code, popped, front,
                   q_error, generator, scraper>>

\* first() returns None on an empty queue; it does not raise.
QFirst ==
    /\ pc = "queue"
    /\ front' = first(list)
    /\ pc' = "queue_first"
    /\ UNCHANGED <<inputs, quantum_length, data, size, engine, report,
                   exit_code, pushed, popped, q_error, generator, scraper>>

\* remove(first()): deque.remove(None) finds nothing equal to None and
\* raises ValueError.
QRemove ==
    /\ pc = "queue_first"
    /\ IF front = 0
       THEN /\ q_error' = "ValueError"
            /\ pc' = "queue_raised"
            /\ UNCHANGED <<list, popped>>
       ELSE /\ list' = remove(list, front)
            /\ popped' = Append(popped, front)
            /\ pc' = "queue"
            /\ UNCHANGED q_error
    /\ UNCHANGED <<inputs, quantum_length, data, size, t, admitted, running,
                   remaining_time, first_dispatch_time, completion_time,
                   trace, report, exit_code, pushed, front, generator, scraper>>

\* ------------------------------------------------------------ generate.py
\* A bounds string is a sequence of characters: a digit stands for itself,
\* Dash for "-".
Dash == 0 - 1

RangeStrings(max) == [1..3 -> (0..max) \cup {Dash}]

GenArgvs ==
    [num : 0..MaxProcs,
     arrival_range : RangeStrings(MaxArrival),
     burst_range : RangeStrings(MaxBurst),
     output : BOOLEAN]

\* s.split("-")
RECURSIVE split(_)
split(s) ==
    IF s = <<>> THEN << <<>> >>
    ELSE LET rest == split(Tail(s)) IN
         IF Head(s) = Dash THEN << <<>> >> \o rest
         ELSE << <<Head(s)>> \o Head(rest) >> \o Tail(rest)

\* int() of a non-empty string of digits
RECURSIVE int(_)
int(d) ==
    IF Len(d) = 1 THEN d[1]
    ELSE 10 * int(SubSeq(d, 1, Len(d) - 1)) + d[Len(d)]

\* <<lower, upper>>, or <<>> when the unpacking or int() raises
split_range_string(s) ==
    LET parts == split(s) IN
    IF Len(parts) # 2 THEN <<>>
    ELSE IF parts[1] = <<>> \/ parts[2] = <<>> THEN <<>>
    ELSE <<int(parts[1]), int(parts[2])>>

\* the lists randint() can produce
get_random_times(num, lower, upper) == [1..num -> lower..upper]

to_txt_format(arrivals, bursts) ==
    [num_entries |-> Len(arrivals),
     lines |-> [k \in 1..Min(Len(arrivals), Len(bursts)) |->
                   <<k, arrivals[k], bursts[k]>>]]

\* generate.py:69-91: parse the bounds, check them and NUM
GenArgs ==
    /\ pc = "generate"
    /\ LET a == split_range_string(gen_argv.arrival_range)
           b == split_range_string(gen_argv.burst_range)
       IN IF a = <<>> \/ b = <<>>
          THEN /\ pc' = "gen_exit"
               /\ exit_code' = {EINVAL}
               /\ UNCHANGED <<arrival_bounds, burst_bounds>>
          ELSE /\ arrival_bounds' = a
               /\ burst_bounds' = b
               /\ IF a[1] > a[2] \/ b[1] > b[2] \/ gen_argv.num < 1
                  THEN pc' = "gen_exit" /\ exit_code' = {EINVAL}
                  ELSE pc' = "gen_times" /\ UNCHANGED exit_code
    /\ UNCHANGED <<inputs, quantum_length, data, size, engine, report,
                   exercise, scraper, gen_argv, arrival_times, burst_times, content>>

\* generate.py:93-103: draw the times, print them, write the file if asked
GenWrite ==
    /\ pc = "gen_times"
    /\ \E at \in get_random_times(gen_argv.num, arrival_bounds[1],
                                  arrival_bounds[2]) :
       \E bt \in get_random_times(gen_argv.num, burst_bounds[1],
                                  burst_bounds[2]) :
          /\ arrival_times' = at
          /\ burst_times' = bt
          /\ content' = IF gen_argv.output THEN to_txt_format(at, bt)
                        ELSE content
    /\ pc' = "gen_exit"
    /\ exit_code' = {EXIT_SUCCESS}
    /\ UNCHANGED <<inputs, quantum_length, data, size, engine, report,
                   exercise, scraper, gen_argv, arrival_bounds, burst_bounds>>

\* rr.py is not running
NoRun ==
    /\ quantum_length = 0
    /\ list = <<>>
    /\ t = 0
    /\ admitted = {}
    /\ running = 0
    /\ remaining_time = <<>>
    /\ first_dispatch_time = <<>>
    /\ completion_time = <<>>
    /\ trace = <<>>
    /\ total_waiting_time = 0
    /\ total_response_time = 0
    /\ avg_waiting_time = {}
    /\ avg_response_time = {}
    /\ exit_code = {}

\* ------------------------------------------------- solver.py: parsing
\* Fault variant of handle_endtag(): the flags checked from the outermost
\* to the innermost.
HandleEndtagOuterFirst(self, tag) ==
    IF tag # "div" THEN self
    ELSE IF self.in_gantt_chart THEN [self EXCEPT !.in_gantt_chart = FALSE]
    ELSE IF self.in_combined_row THEN [self EXCEPT !.in_combined_row = FALSE]
    ELSE IF self.in_times_row THEN [self EXCEPT !.in_times_row = FALSE]
    ELSE IF self.in_pids_row THEN [self EXCEPT !.in_pids_row = FALSE]
    ELSE IF self.in_time_cell THEN [self EXCEPT !.in_time_cell = FALSE]
    ELSE IF self.in_pid_cell THEN [self EXCEPT !.in_pid_cell = FALSE]
    ELSE self

\* Fault variant of handle_data(): every time appended.
HandleDataKeepAll(self, text) ==
    IF self.in_pid_cell THEN [self EXCEPT !.pids = Append(@, text)]
    ELSE IF self.in_time_cell THEN [self EXCEPT !.times = Append(@, int(text))]
    ELSE self

\* class_attr is "" when the tag has no class attribute
handle_starttag(self, tag, class_attr) ==
    IF tag # "div" THEN self
    ELSE IF self.in_pids_row THEN [self EXCEPT !.in_pid_cell = TRUE]
    ELSE IF self.in_times_row THEN [self EXCEPT !.in_time_cell = TRUE]
    ELSE IF self.in_combined_row
    THEN IF self.next_row_type = "pids"
         THEN [self EXCEPT !.in_pids_row = TRUE, !.next_row_type = "times"]
         ELSE [self EXCEPT !.in_times_row = TRUE, !.next_row_type = "pids"]
    ELSE IF self.in_gantt_chart THEN [self EXCEPT !.in_combined_row = TRUE]
    ELSE IF class_attr = OUTERMOST_DIV_CLASSNAME
    THEN [self EXCEPT !.in_gantt_chart = TRUE]
    ELSE self

handle_endtag(self, tag) ==
    IF tag # "div" THEN self
    ELSE IF self.in_pid_cell THEN [self EXCEPT !.in_pid_cell = FALSE]
    ELSE IF self.in_time_cell THEN [self EXCEPT !.in_time_cell = FALSE]
    ELSE IF self.in_pids_row THEN [self EXCEPT !.in_pids_row = FALSE]
    ELSE IF self.in_times_row THEN [self EXCEPT !.in_times_row = FALSE]
    ELSE IF self.in_combined_row THEN [self EXCEPT !.in_combined_row = FALSE]
    ELSE IF self.in_gantt_chart THEN [self EXCEPT !.in_gantt_chart = FALSE]
    ELSE self

\* Whether int(text) returns: of the texts fed here, the digit strings do
\* and the lone "-" raises ValueError.
IsInt(text) == text # <<>> /\ \A k \in 1..Len(text) : text[k] >= 0

\* int(text) raises in a time cell
HandleDataRaises(self, text) ==
    ~self.in_pid_cell /\ self.in_time_cell /\ ~IsInt(text)

handle_data(self, text) ==
    IF self.in_pid_cell THEN [self EXCEPT !.pids = Append(@, text)]
    ELSE IF self.in_time_cell
    THEN LET time == int(text) IN
         IF self.times = <<>> \/ self.times[Len(self.times)] # time
         THEN [self EXCEPT !.times = Append(@, int(text))]
         ELSE self
    ELSE self

\* ---- what is fed
StartTag(tag, class_attr) ==
    [kind |-> "start", tag |-> tag, class |-> class_attr]

EndTag(tag) == [kind |-> "end", tag |-> tag]

Data(text) == [kind |-> "data", text |-> text]

\* texts of a cell: one digit, "01", and "-"
Texts ==
    {<<d>> : d \in 0..MaxBurst} \cup {<<0, 1>>, <<Dash>>}

Events ==
    {StartTag(tag, c) : tag \in {"div", "span"},
                        c \in {OUTERMOST_DIV_CLASSNAME, ""}}
    \cup {EndTag(tag) : tag \in {"div", "span"}}
    \cup {Data(x) : x \in Texts}

\* A chart of n blocks: n pids, n + 1 boundary times that never decrease,
\* shown in one row (wrap = n) or in two, the second row starting with the
\* time the first row ends with.
Charts ==
    UNION {
        {[pids |-> ps, times |-> ts, wrap |-> w] :
            ps \in [1..n -> {<<p>> : p \in 1..MaxProcs}],
            ts \in {x \in [1..(n + 1) -> 0..(MaxArrival + 1)] :
                       \A k \in 1..n : x[k] <= x[k + 1]},
            w \in 1..n}
        : n \in 1..MaxProcs}

\* one <div> per cell, its text inside
RECURSIVE Cells(_)
Cells(texts) ==
    IF texts = <<>> THEN <<>>
    ELSE <<StartTag("div", ""), Data(Head(texts)), EndTag("div")>>
         \o Cells(Tail(texts))

\* a combined row: the row of pids, then the row of times
Row(ps, ts) ==
    <<StartTag("div", ""), StartTag("div", "")>> \o Cells(ps)
    \o <<EndTag("div"), StartTag("div", "")>>
    \o Cells([k \in 1..Len(ts) |-> <<ts[k]>>])
    \o <<EndTag("div"), EndTag("div")>>

\* the page: a wrapper, the chart's <div>, its one or two combined rows
ChartEvents(c) ==
    LET n == Len(c.pids) IN
    <<StartTag("div", ""), StartTag("span", ""), EndTag("span"),
      StartTag("div", OUTERMOST_DIV_CLASSNAME)>>
    \o Row(SubSeq(c.pids, 1, c.wrap), SubSeq(c.times, 1, c.wrap + 1))
    \o (IF c.wrap < n
        THEN Row(SubSeq(c.pids, c.wrap + 1, n),
                 SubSeq(c.times, c.wrap + 1, n + 1))
        ELSE <<>>)
    \o <<EndTag("div"), EndTag("div")>>

\* ---- HTMLParser.feed(): one handler call per event
\* pc = "feed": the events of a page, in order; pc = "events": any event.
NextEvents ==
    IF pc = "feed" THEN (IF html = <<>> THEN {} ELSE {Head(html)})
    ELSE IF pc = "events" /\ fed < MaxEvents THEN Events
    ELSE {}

Fed ==
    /\ html' = (IF pc = "feed" THEN Tail(html) ELSE html)
    /\ fed' = fed + 1
    /\ pc' = (IF pc = "feed" /\ Len(html) = 1 THEN "parsed" ELSE pc)
    /\ UNCHANGED <<inputs, quantum_length, data, size, engine, report,
                   exit_code, exercise, generator, chart>>

HandleStarttag ==
    \E e \in NextEvents :
        /\ e.kind = "start"
        /\ chart_parser' = handle_starttag(chart_parser, e.tag, e.class)
        /\ Fed

HandleEndtag ==
    \E e \in NextEvents :
        /\ e.kind = "end"
        /\ chart_parser' = handle_endtag(chart_parser, e.tag)
        /\ Fed

HandleData ==
    \E e \in NextEvents :
        /\ e.kind = "data"
        /\ IF HandleDataRaises(chart_parser, e.text)
           THEN /\ pc' = "parser_raised"
                /\ UNCHANGED <<inputs, quantum_length, data, size, engine,
                               report, exit_code, exercise, generator,
                               scraper>>
           ELSE /\ chart_parser' = handle_data(chart_parser, e.text)
                /\ Fed

ParserInit ==
    /\ argc = RequiredArgc - 1
    /\ argv2 = [isint |-> FALSE, val |-> 0]
    /\ file = <<>>
    /\ data = <<>>
    /\ size = 0
    /\ NoRun
    /\ NoExercise
    /\ NoGenerator
    /\ chart_parser = GanttChartParser
    /\ fed = 0
    /\ \/ pc = "events" /\ chart = NoChart /\ html = <<>>
       \/ pc = "feed" /\ chart \in Charts /\ html = ChartEvents(chart)

ParserNext == HandleStarttag \/ HandleEndtag \/ HandleData

ParserSpec == ParserInit /\ [][ParserNext]_vars

\* ------------------------------------------------------------- the suite
\* The scenario of the specification's test table, run with quantum 2.
ScenarioFile == <<<<1, 0, 5>>, <<2, 1, 3>>, <<3, 2, 1>>>>

ScenarioTrace ==
    <<[pid |-> 1, start_time |-> 0, end_time |-> 2],
      [pid |-> 2, start_time |-> 2, end_time |-> 4],
      [pid |-> 3, start_time |-> 4, end_time |-> 5],
      [pid |-> 1, start_time |-> 5, end_time |-> 7],
      [pid |-> 2, start_time |-> 7, end_time |-> 8],
      [pid |-> 1, start_time |-> 8, end_time |-> 9]>>

\* rr.py on well-formed input, the scenario included
SuiteRun ==
    /\ pc = "main"
    /\ argc = RequiredArgc
    /\ argv2 \in {[isint |-> TRUE, val |-> q] : q \in 1..MaxQuantum}
    /\ file \in {f \in InputFiles :
                    DistinctPids(f) /\ \A k \in DOMAIN f : ValidLine(f[k])}
                \cup {ScenarioFile}
    /\ data = <<>>
    /\ size = 0
    /\ NoRun
    /\ NoExercise
    /\ NoParser
    /\ NoGenerator

\* the queue on its own, empty at first
SuiteQueue ==
    /\ pc = "queue"
    /\ argc = 1
    /\ argv2 = [isint |-> FALSE, val |-> 0]
    /\ file \in QueueFiles
    /\ data = init_processes(file)
    /\ size = Len(file)
    /\ NoRun
    /\ NoExercise
    /\ NoParser
    /\ NoGenerator

SuiteGenerate ==
    /\ pc = "generate"
    /\ argc = 1
    /\ argv2 = [isint |-> FALSE, val |-> 0]
    /\ file = <<>>
    /\ data = <<>>
    /\ size = 0
    /\ NoRun
    /\ NoExercise
    /\ NoParser
    /\ gen_argv \in GenArgvs
    /\ arrival_bounds = <<>>
    /\ burst_bounds = <<>>
    /\ arrival_times = <<>>
    /\ burst_times = <<>>
    /\ content = <<>>

SuiteInit == SuiteRun \/ SuiteQueue \/ SuiteGenerate

SuiteNext ==
    \/ Next
    \/ QPush
    \/ QPushMany
    \/ QFirst
    \/ QRemove
    \/ GenArgs
    \/ GenWrite

SuiteSpec == SuiteInit /\ [][SuiteNext]_vars

\* ============================================================ properties
\* main() has read the input and the engine's state exists
Simulating ==
    \/ pc \in {"admission", "idle", "run", "completion", "terminal", "report",
               "raised"}
    \/ pc = "done" /\ exit_code = {EXIT_SUCCESS}

ValidProcesses ==
    /\ \A i, j \in Procs : i # j => data[i].pid # data[j].pid
    /\ \A i \in Procs : data[i].arrival_time >= 0 /\ data[i].burst_time >= 1

ValidInput == ValidProcesses /\ quantum_length >= 1

Completed(i) == IsSet(completion_time[i])

Pos(q, i) == CHOOSE k \in 1..Len(q) : q[k] = i

\* the trace entries of process i, by pid
EntriesOf(i) == {k \in 1..Len(trace) : trace[k].pid = data[i].pid}

TraceTime(i) ==
    SumOver([k \in 1..Len(trace) |-> trace[k].end_time - trace[k].start_time],
            EntriesOf(i))

\* C1: on valid input the engine reaches Terminal, and there every process
\* has completion_time set and remaining_time = 0.
C1_Terminates ==
    (pc = "setup" /\ ValidInput)
        ~> (pc = "terminal"
            /\ \A i \in Procs : Completed(i) /\ remaining_time[i] = 0)

C1_Witness ==
    /\ pc = "terminal" /\ ValidInput /\ size = MaxProcs
    /\ Len(trace) > size
    /\ \A i \in Procs : Completed(i) /\ remaining_time[i] = 0

\* C2: when the quantum of P expires at T with work left and Q arrives at
\* T, the requeue puts Q in the ready queue ahead of P, and Q is dispatched
\* before P is dispatched again.
C2_RequeueStep ==
    /\ pc = "completion" /\ pc' = "admission"
    /\ remaining_time[running] > 0

C2_QueueOrder ==
    C2_RequeueStep =>
        \A q \in Procs \ {running} :
            data[q].arrival_time = t =>
                /\ InQueue(list', q)
                /\ InQueue(list', running)
                /\ Pos(list', q) < Pos(list', running)

C2_TraceOrder ==
    \A k, m \in 1..Len(trace) :
        (k < m /\ trace[k].pid = trace[m].pid) =>
            \A q \in Procs :
                (data[q].pid # trace[k].pid
                 /\ data[q].arrival_time = trace[k].end_time) =>
                    \E j \in (k + 1)..(m - 1) : trace[j].pid = data[q].pid

C2_ArrivalBeforeRequeued ==
    [][ValidInput /\ Simulating => C2_QueueOrder /\ C2_TraceOrder']_vars

C2_Witness ==
    /\ ValidInput /\ pc = "terminal"
    /\ \E k, m \in 1..Len(trace) :
          /\ k < m /\ trace[k].pid = trace[m].pid
          /\ \E q \in Procs :
                /\ data[q].pid # trace[k].pid
                /\ data[q].arrival_time = trace[k].end_time

\* C3: processes are admitted in ascending arrival_time order, ties broken by
\* input order, whatever the pids; the earlier one is admitted first and gets
\* its first dispatch first.
C3_AdmissionOrder ==
    Simulating =>
        \A i, j \in Procs :
            Earlier(i, j) =>
                /\ j \in admitted => i \in admitted
                /\ (InQueue(list, i) /\ InQueue(list, j)
                    /\ ~IsSet(first_dispatch_time[i])
                    /\ ~IsSet(first_dispatch_time[j]))
                        => Pos(list, i) < Pos(list, j)
                /\ IsSet(first_dispatch_time[j]) =>
                      /\ IsSet(first_dispatch_time[i])
                      /\ Val(first_dispatch_time[i]) <= Val(first_dispatch_time[j])
                      /\ (ValidInput =>
                            Val(first_dispatch_time[i]) < Val(first_dispatch_time[j]))

\* two processes with the same arrival time, the one with the larger pid
\* first in the input, both dispatched
C3_Witness ==
    /\ Simulating /\ ValidInput
    /\ \E i, j \in Procs :
          /\ i < j
          /\ data[i].arrival_time = data[j].arrival_time
          /\ data[i].pid > data[j].pid
          /\ data[i].burst_time > quantum_length
          /\ IsSet(first_dispatch_time[j])

\* C4: each process is in exactly one of not-yet-arrived, in-queue, running,
\* completed; the ready queue holds no process twice.
StatesOf(i) ==
    {s \in {"not-yet-arrived", "in-queue", "running", "completed"} :
        \/ s = "not-yet-arrived" /\ i \notin admitted
        \/ s = "in-queue" /\ InQueue(list, i)
        \/ s = "running" /\ running = i
        \/ s = "completed" /\ Completed(i)}

C4_ExactlyOneState ==
    Simulating =>
        /\ \A i \in Procs : Cardinality(StatesOf(i)) = 1
        /\ \A k, m \in 1..Len(list) : k # m => list[k] # list[m]
        /\ running \in Procs \cup {0}
        /\ \A k \in 1..Len(list) : list[k] \in Procs

C4_Witness ==
    /\ Simulating /\ size = MaxProcs
    /\ \E i, j \in Procs :
          /\ StatesOf(i) = {"running"}
          /\ StatesOf(j) = {"in-queue"}
          /\ IsSet(first_dispatch_time[j])

\* C5: after termination the durations of the trace entries of a process
\* add up to its burst_time.
C5_TraceSumsToBurst ==
    (pc \in {"terminal", "report"} /\ ValidInput) =>
        \A i \in Procs : TraceTime(i) = data[i].burst_time

C5_Witness ==
    /\ pc = "terminal" /\ ValidInput
    /\ \E i \in Procs : Cardinality(EntriesOf(i)) > 1
    /\ \A i \in Procs : TraceTime(i) = data[i].burst_time

\* C6: on valid input no process is dispatched before its arrival_time, and
\* at termination response_time >= 0 and waiting_time >= 0 for every process.
C6_NonNegativeTimes ==
    (Simulating /\ ValidInput) =>
        /\ \A i \in Procs :
              IsSet(first_dispatch_time[i]) => response_time(i) >= 0
        /\ pc \in {"terminal", "report"} =>
              \A i \in Procs : response_time(i) >= 0 /\ waiting_time(i) >= 0

C6_Witness ==
    /\ pc = "terminal" /\ ValidInput
    /\ \E i \in Procs : response_time(i) > 0 /\ waiting_time(i) > response_time(i)

\* C7: a quantum of 0 is rejected before the simulation starts: no process is
\* read, admitted or dispatched and no result is printed.
C7_QuantumZeroRejected ==
    (argc = RequiredArgc /\ argv2.isint /\ argv2.val = 0) =>
        /\ pc = "main" \/ (pc = "done" /\ exit_code = {EINVAL})
        /\ data = <<>> /\ admitted = {} /\ trace = <<>>
        /\ avg_waiting_time = {} /\ avg_response_time = {}

\* C8: with zero processes the run ends without a crash: clock 0, empty
\* trace, averages produced rather than a failing division.
C8_ZeroProcessesNoCrash ==
    (Simulating /\ quantum_length >= 1 /\ size = 0) =>
        /\ t = 0 /\ trace = <<>>
        /\ pc # "raised"
        /\ pc = "done" => IsSet(avg_waiting_time) /\ IsSet(avg_response_time)

\* C9: a duplicate pid, a negative arrival time or a burst time <= 0 is
\* rejected at setup with an error, before anything is simulated or reported.
C9_MalformedRejected ==
    (pc \notin {"main", "init_processes"} /\ quantum_length >= 1
     /\ ~ValidProcesses) =>
        /\ pc = "raised"
        /\ admitted = {} /\ running = 0 /\ trace = <<>>
        /\ avg_waiting_time = {} /\ avg_response_time = {}

\* C10 as stated: completion_time is set if and only if the process is
\* neither in the ready queue nor running.  Read on valid input at the idle
\* check, where every process with arrival_time <= t has been admitted.
C10_CompletedIffAbsent ==
    (pc = "idle" /\ ValidInput) =>
        \A i \in Procs :
            Completed(i) <=> (~InQueue(list, i) /\ running # i)

\* C10, amended: completion_time is set if and only if the process has been
\* admitted and is neither in the ready queue nor running.
C10_CompletedIffLeft ==
    Simulating =>
        \A i \in Procs :
            Completed(i) <=>
                (i \in admitted /\ ~InQueue(list, i) /\ running # i)

C10_Witness ==
    /\ Simulating /\ ValidInput
    /\ \E i, j \in Procs :
          /\ Completed(i)
          /\ j \notin admitted /\ ~Completed(j)
          /\ ~InQueue(list, j) /\ running # j

\* C11: 0 <= remaining_time <= burst_time for every process in every state
\* of the simulation, and no step increases remaining_time.
C11_RemainingBounded ==
    \A i \in Procs :
        remaining_time[i] >= 0 /\ remaining_time[i] <= data[i].burst_time

C11_RemainingInRange ==
    [][Simulating' =>
          /\ C11_RemainingBounded'
          /\ Simulating =>
                \A i \in Procs : remaining_time'[i] <= remaining_time[i]]_vars

C11_Witness ==
    /\ Simulating /\ ValidInput
    /\ \E i \in Procs :
          remaining_time[i] > 0 /\ remaining_time[i] < data[i].burst_time

\* The chart a trace makes: the pid of every entry, and the boundary times
\* (every start time, then the last end time).
TracePids == [k \in 1..Len(trace) |-> trace[k].pid]

TraceTimes ==
    [k \in 1..Len(trace) |-> trace[k].start_time]
    \o (IF trace = <<>> THEN <<>> ELSE <<trace[Len(trace)].end_time>>)

\* C12: first_dispatch_time is set once, at the first dispatch, to the clock
\* at that dispatch, which is the start_time of the first trace entry of the
\* process; no later step changes it.
C12_FirstDispatchOnce ==
    [][Simulating' =>
          \A i \in Procs' :
              /\ (Simulating /\ IsSet(first_dispatch_time[i])) =>
                    first_dispatch_time'[i] = first_dispatch_time[i]
              /\ (Simulating /\ ~IsSet(first_dispatch_time[i])
                  /\ IsSet(first_dispatch_time'[i])) =>
                    /\ pc = "idle" /\ pc' = "run"
                    /\ running' = i
                    /\ first_dispatch_time'[i] = {t}
              /\ (ValidProcesses' /\ EntriesOf(i)' # {}) =>
                    first_dispatch_time'[i] =
                        {first_exec_time(TracePids', TraceTimes', data'[i].pid)}]_vars

\* a process dispatched again after a preemption
C12_Witness ==
    /\ Simulating /\ ValidInput
    /\ \E i \in Procs :
          /\ Cardinality(EntriesOf(i)) > 1
          /\ IsSet(first_dispatch_time[i])
          /\ \E k \in EntriesOf(i) :
                trace[k].start_time > Val(first_dispatch_time[i])

\* C13: with nothing queued or running and arrivals outstanding, one step
\* takes the clock to the smallest outstanding arrival_time; the next trace
\* entry starts there; the CPU is never idle while an arrived process has
\* work left.
C13_IdleStep ==
    (pc = "idle" /\ list = <<>> /\ running = 0 /\ NotAdmitted # {}) =>
        /\ pc' = "admission"
        /\ trace' = trace
        /\ \E j \in NotAdmitted :
              /\ t' = data[j].arrival_time
              /\ \A m \in NotAdmitted : t' <= data[m].arrival_time

\* every trace entry that follows idle time (or opens the trace) starts at
\* the arrival time of its process, and every process that arrived before
\* that has run its whole burst in earlier entries
C13_NoIdleWithWork ==
    \A k \in 1..Len(trace) :
        (k = 1 \/ trace[k - 1].end_time < trace[k].start_time) =>
            \A i \in Procs :
                /\ data[i].pid = trace[k].pid =>
                      data[i].arrival_time = trace[k].start_time
                /\ data[i].arrival_time < trace[k].start_time =>
                      /\ \A m \in EntriesOf(i) : m < k
                      /\ TraceTime(i) = data[i].burst_time

C13_IdleJump ==
    [][(ValidInput /\ Simulating) =>
          C13_IdleStep /\ C13_NoIdleWithWork']_vars

C13_Witness ==
    /\ Simulating /\ ValidInput
    /\ \E k \in 2..Len(trace) : trace[k - 1].end_time < trace[k].start_time

\* C19: a dispatch runs the process for min(quantum, remaining_time) time
\* units and appends one trace entry [t_before, t_after) of that length, so
\* every entry lasts between 1 and quantum; a process with burst_time <=
\* quantum has a single entry; a lone process has response and waiting
\* time 0.
C19_RunStep ==
    IF pc = "run"
    THEN LET len == Min(quantum_length, remaining_time[running]) IN
         /\ t' = t + len
         /\ remaining_time' =
                [remaining_time EXCEPT ![running] = remaining_time[running] - len]
         /\ trace' = Append(trace, [pid |-> data[running].pid,
                                    start_time |-> t, end_time |-> t'])
    ELSE trace' = trace

C19_TraceShape ==
    /\ \A k \in 1..Len(trace) :
          /\ trace[k].end_time - trace[k].start_time >= 1
          /\ trace[k].end_time - trace[k].start_time <= quantum_length
    /\ \A i \in Procs :
          data[i].burst_time <= quantum_length =>
              /\ Cardinality(EntriesOf(i)) <= 1
              /\ Completed(i) => Cardinality(EntriesOf(i)) = 1
    /\ (size = 1 /\ pc \in {"report", "done"}) =>
          /\ response_time(1) = 0 /\ waiting_time(1) = 0
          /\ total_response_time = 0 /\ total_waiting_time = 0

C19_RunLength ==
    [][(ValidInput /\ Simulating) => C19_RunStep /\ C19_TraceShape']_vars

C19_Witness ==
    /\ pc = "done" /\ ValidInput
    /\ \E k \in 1..Len(trace) :
          trace[k].end_time - trace[k].start_time = quantum_length
    /\ \E k \in 1..Len(trace) :
          trace[k].end_time - trace[k].start_time < quantum_length

\* C20: between two consecutive trace entries of one process no other
\* process has more than one entry, so at most size - 1 entries and at most
\* (size - 1) * quantum time units lie between them.
C20_Fairness ==
    (Simulating /\ ValidInput) =>
        \A k1, k2 \in 1..Len(trace) :
            (/\ k1 < k2
             /\ trace[k1].pid = trace[k2].pid
             /\ \A m \in (k1 + 1)..(k2 - 1) : trace[m].pid # trace[k1].pid) =>
                /\ \A m1, m2 \in (k1 + 1)..(k2 - 1) :
                      trace[m1].pid = trace[m2].pid => m1 = m2
                /\ k2 - k1 - 1 <= size - 1
                /\ trace[k2].start_time - trace[k1].end_time
                      <= (size - 1) * quantum_length

\* a preempted process dispatched again after the other one has run
C20_Witness ==
    /\ Simulating /\ ValidInput
    /\ \E k \in 1..Len(trace) :
          /\ k + 2 <= Len(trace)
          /\ trace[k].pid = trace[k + 2].pid
          /\ trace[k + 1].pid # trace[k].pid

\* the run of the scenario with quantum 2
ScenarioRun == file = ScenarioFile /\ Simulating /\ quantum_length = 2

IsPrefix(a, b) == Len(a) <= Len(b) /\ SubSeq(b, 1, Len(a)) = a

\* C14: on [(1,0,5),(2,1,3),(3,2,1)] with quantum 2 the trace is P1[0,2),
\* P2[2,4), P3[4,5), P1[5,7), P2[7,8), P1[8,9); P1 has response time 0, P3
\* the smallest waiting time, the totals are waiting 10 and response 3, and
\* the averages printed are 3.33 and 1.00.
C14_Scenario ==
    ScenarioRun =>
        /\ IsPrefix(trace, ScenarioTrace)
        /\ pc \in {"terminal", "report", "done"} => trace = ScenarioTrace
        /\ pc \in {"report", "done"} =>
              /\ response_time(1) = 0
              /\ waiting_time(3) < waiting_time(1)
              /\ waiting_time(3) < waiting_time(2)
              /\ total_waiting_time = 10
              /\ total_response_time = 3
        /\ pc = "done" =>
              /\ avg_waiting_time = {333}
              /\ avg_response_time = {100}
        /\ pc # "raised"

C14_Witness == ScenarioRun /\ pc = "done" /\ trace = ScenarioTrace

Exercising == pc \in {"queue", "queue_first", "queue_raised"}

\* C15: whatever the sequence of pushes to the back (single or batched) and
\* takes from the front, what has left the queue followed by what is still
\* in it is what was pushed, in the order it was pushed; a batched push adds
\* its list in order.
C15_QueueContents == Exercising => popped \o list = pushed

C15_Fifo ==
    [][(Exercising /\ C15_QueueContents) =>
          /\ C15_QueueContents'
          /\ \A ps \in [1..2 -> Procs] :
                pushed' = pushed \o ps => list' = list \o ps
          /\ popped' # popped =>
                /\ list # <<>>
                /\ popped' = Append(popped, list[1])
                /\ list' = Tail(list)]_vars

\* two different processes taken in the order pushed, more still queued
C15_Witness ==
    /\ pc = "queue"
    /\ Len(popped) >= 2 /\ popped[1] # popped[2]
    /\ Len(list) >= 2 /\ list[1] # list[2]

\* C16 (as the claim has it): taking the front of an empty queue fails with
\* EmptyQueueError.
C16_EmptyQueueError ==
    (pc \in {"queue_first", "queue_raised"} /\ list = <<>>) =>
        q_error = "EmptyQueueError"

\* C16 (amended): first() of an empty queue returns None without raising,
\* and None only then; the remove() of that None raises ValueError; the
\* queue stays empty and nothing is taken; on valid input the engine takes
\* the front only of a non-empty queue.
C16_EmptyFront ==
    [][/\ (pc = "queue" /\ pc' = "queue_first") =>
             /\ front' = 0 <=> list = <<>>
             /\ q_error' = "none"
             /\ list' = list
       /\ (pc = "queue_first" /\ list = <<>>) =>
             /\ q_error' = "ValueError"
             /\ pc' = "queue_raised"
             /\ list' = <<>>
             /\ popped' = popped
       /\ (ValidInput /\ pc = "idle" /\ pc' = "run") =>
             /\ list # <<>>
             /\ running' = list[1]]_vars

C16_Witness == pc = "queue_raised" /\ list = <<>> /\ pushed # <<>>

\* C18: a test case generate.py produces on an accepted invocation has NUM
\* entries with pids 1..NUM, arrival times within the arrival bounds and
\* non-negative, burst times within the burst bounds and positive.
C18_GeneratedValid ==
    (pc = "gen_exit" /\ exit_code = {EXIT_SUCCESS}) =>
        /\ Len(arrival_times) = gen_argv.num
        /\ Len(burst_times) = gen_argv.num
        /\ \A k \in 1..gen_argv.num :
              /\ arrival_times[k] >= arrival_bounds[1]
              /\ arrival_times[k] <= arrival_bounds[2]
              /\ arrival_times[k] >= 0
              /\ burst_times[k] >= burst_bounds[1]
              /\ burst_times[k] <= burst_bounds[2]
              /\ burst_times[k] >= 1
        /\ gen_argv.output =>
              /\ content.num_entries = gen_argv.num
              /\ Len(content.lines) = gen_argv.num
              /\ \A k \in 1..gen_argv.num :
                    content.lines[k] = <<k, arrival_times[k], burst_times[k]>>

Parsing == pc \in {"feed", "events", "parsed", "parser_raised"}

NoRepeat(ts) == \A k \in 1..(Len(ts) - 1) : ts[k] # ts[k + 1]

\* C21: after any sequence of tag and data events the times list has no two
\* equal adjacent entries; a wrapped chart's boundary time is recorded once,
\* and a well-formed chart (no block of length zero) gives its own pids and
\* times back, with len(times) = len(pids) + 1.
C21_NoRepeatedTime ==
    Parsing =>
        /\ NoRepeat(chart_parser.times)
        /\ (pc = "parsed" /\ NoRepeat(chart.times)) =>
              /\ chart_parser.pids = chart.pids
              /\ chart_parser.times = chart.times
              /\ Len(chart_parser.times) = Len(chart_parser.pids) + 1

\* a wrapped, well-formed chart has been parsed
C21_Witness ==
    /\ pc = "parsed"
    /\ chart.wrap < Len(chart.pids)
    /\ NoRepeat(chart.times)
    /\ Len(chart_parser.times) = Len(chart.pids) + 1

C22_Nesting ==
    /\ chart_parser.in_pid_cell => chart_parser.in_pids_row
    /\ chart_parser.in_time_cell => chart_parser.in_times_row
    /\ (chart_parser.in_pids_row \/ chart_parser.in_times_row) =>
          chart_parser.in_combined_row
    /\ chart_parser.in_combined_row => chart_parser.in_gantt_chart
    /\ ~(chart_parser.in_pids_row /\ chart_parser.in_times_row)

\* C22: after any sequence of start-tag, end-tag and data events the flags
\* are nested (cell within row within combined row within chart, never both
\* rows at once), and pids or times grow only in a step that starts inside
\* the chart.
C22_FlagNesting ==
    [][Parsing =>
          /\ C22_Nesting /\ C22_Nesting'
          /\ (chart_parser'.pids # chart_parser.pids
              \/ chart_parser'.times # chart_parser.times) =>
                /\ chart_parser.in_gantt_chart
                /\ chart_parser.in_pid_cell \/ chart_parser.in_time_cell]_vars

\* events in any order: a pid and a time recorded, the parser in a time cell
C22_Witness ==
    /\ pc = "events"
    /\ chart_parser.pids # <<>>
    /\ chart_parser.times # <<>>
    /\ chart_parser.in_time_cell

====
